---------------------------- MODULE Spec2Model ----------------------------
(***************************************************************************)
(* Model of src/gamma.py: the GammaController (configuration, ramp         *)
(* builder, ramp applicator, the four transitions, the status text) and    *)
(* the hotkey polling loop of main().                                      *)
(*                                                                         *)
(* Gamma values are kept in hundredths (2.0 is 200, the step 0.1 is 10);   *)
(* the binary rounding error that repeated float additions of 0.1 pick up  *)
(* is not modelled.  A ramp is kept at the sample indices SampleIdx of its *)
(* 256 entries; the curve values there are the ones lines 79-82 compute.   *)
(***************************************************************************)
EXTENDS Integers, Sequences, FiniteSets, TLC

\* ------------------------------------------------------------ bounds
MaxPresses == 2
MaxHold == 2
MaxDevices == 2

\* ------------------------------------------------- program constants
GammaMin == 10
GammaMax == 440
GammaStep == 10
NeutralGamma == 100
DefaultGamma == 200
LinearScale == 257

Keys == <<"F2", "F3", "F4", "F5">>
KeySet == {Keys[n] : n \in 1..Len(Keys)}
Modes == <<"all", "blue">>
ModeSet == {Modes[n] : n \in 1..Len(Modes)}
SampleIdx == <<0, 1, 128, 255>>
ConfigKeys == {"gamma", "color_mode", "hotkeys"}

DEFAULT_CONFIG == [keys |-> ConfigKeys, gamma |-> DefaultGamma, color_mode |-> "all"]

NoFile == [exists |-> FALSE, keys |-> {}, gamma |-> 0, color_mode |-> ""]

\* The config files the process may find at startup: none, a file holding
\* only some of the keys, files written by an earlier run, and hand-edited
\* files whose values lie outside the domain.
FileChoices ==
    { NoFile,
      [exists |-> TRUE, keys |-> {"gamma"}, gamma |-> GammaMax, color_mode |-> ""],
      [exists |-> TRUE, keys |-> ConfigKeys, gamma |-> DefaultGamma, color_mode |-> "blue"],
      [exists |-> TRUE, keys |-> ConfigKeys, gamma |-> 4, color_mode |-> "all"],
      [exists |-> TRUE, keys |-> ConfigKeys, gamma |-> 1000, color_mode |-> "blue"],
      [exists |-> TRUE, keys |-> ConfigKeys, gamma |-> 0, color_mode |-> "all"],
      [exists |-> TRUE, keys |-> {"color_mode"}, gamma |-> 0, color_mode |-> "other"] }

\* The display lists the OS may enumerate: the active flag of each device.
DeviceLists == UNION {[1..n -> BOOLEAN] : n \in 0..MaxDevices}

NULL == <<>>
DisplayDC(idx) == <<"DISPLAY", idx>>
ScreenDC == <<"SCREEN", 0>>

Max(a, b) == IF a >= b THEN a ELSE b
Min(a, b) == IF a <= b THEN a ELSE b

\* ------------------------------------------------------------ config
load_config(f) ==
    IF f.exists
    THEN [keys |-> DEFAULT_CONFIG.keys \cup f.keys,
          gamma |-> IF "gamma" \in f.keys THEN f.gamma ELSE DEFAULT_CONFIG.gamma,
          color_mode |-> IF "color_mode" \in f.keys THEN f.color_mode
                         ELSE DEFAULT_CONFIG.color_mode]
    ELSE DEFAULT_CONFIG

ConfigUpdate(c, g, m) ==
    [c EXCEPT !.keys = @ \cup {"gamma", "color_mode"}, !.gamma = g, !.color_mode = m]

FileDump(c) ==
    [exists |-> TRUE, keys |-> c.keys, gamma |-> c.gamma, color_mode |-> c.color_mode]

\* ------------------------------------------------------ ramp builder
\* int(pow(i / 255.0, 1.0 / gamma) * 65535 + 0.5), clamped to 0..65535, at
\* the sample indices, for every gamma (in hundredths) the model can reach.
CurveSamples(g) ==
  CASE
       g = 4 -> <<0, 0, 0, 65535>>
    [] g = 10 -> <<0, 0, 67, 65535>>
    [] g = 14 -> <<0, 0, 477, 65535>>
    [] g = 20 -> <<0, 0, 2088, 65535>>
    [] g = 24 -> <<0, 0, 3709, 65535>>
    [] g = 30 -> <<0, 0, 6587, 65535>>
    [] g = 34 -> <<0, 0, 8632, 65535>>
    [] g = 40 -> <<0, 0, 11699, 65535>>
    [] g = 44 -> <<0, 0, 13683, 65535>>
    [] g = 50 -> <<0, 1, 16513, 65535>>
    [] g = 54 -> <<0, 2, 18288, 65535>>
    [] g = 60 -> <<0, 6, 20777, 65535>>
    [] g = 64 -> <<0, 11, 22324, 65535>>
    [] g = 70 -> <<0, 24, 24483, 65535>>
    [] g = 74 -> <<0, 37, 25821, 65535>>
    [] g = 80 -> <<0, 64, 27689, 65535>>
    [] g = 84 -> <<0, 89, 28849, 65535>>
    [] g = 90 -> <<0, 139, 30471, 65535>>
    [] g = 94 -> <<0, 180, 31480, 65535>>
    [] g = 100 -> <<0, 257, 32896, 65535>>
    [] g = 104 -> <<0, 318, 33780, 65535>>
    [] g = 110 -> <<0, 425, 35023, 65535>>
    [] g = 114 -> <<0, 508, 35802, 65535>>
    [] g = 120 -> <<0, 647, 36900, 65535>>
    [] g = 124 -> <<0, 751, 37590, 65535>>
    [] g = 130 -> <<0, 923, 38567, 65535>>
    [] g = 134 -> <<0, 1048, 39183, 65535>>
    [] g = 140 -> <<0, 1252, 40056, 65535>>
    [] g = 144 -> <<0, 1397, 40607, 65535>>
    [] g = 150 -> <<0, 1630, 41392, 65535>>
    [] g = 154 -> <<0, 1794, 41889, 65535>>
    [] g = 160 -> <<0, 2053, 42598, 65535>>
    [] g = 164 -> <<0, 2234, 43048, 65535>>
    [] g = 170 -> <<0, 2517, 43691, 65535>>
    [] g = 174 -> <<0, 2713, 44101, 65535>>
    [] g = 180 -> <<0, 3017, 44687, 65535>>
    [] g = 184 -> <<0, 3225, 45060, 65535>>
    [] g = 190 -> <<0, 3547, 45596, 65535>>
    [] g = 194 -> <<0, 3767, 45939, 65535>>
    [] g = 200 -> <<0, 4104, 46431, 65535>>
    [] g = 204 -> <<0, 4333, 46746, 65535>>
    [] g = 210 -> <<0, 4683, 47199, 65535>>
    [] g = 214 -> <<0, 4920, 47490, 65535>>
    [] g = 220 -> <<0, 5279, 47909, 65535>>
    [] g = 224 -> <<0, 5522, 48177, 65535>>
    [] g = 230 -> <<0, 5890, 48566, 65535>>
    [] g = 234 -> <<0, 6138, 48815, 65535>>
    [] g = 240 -> <<0, 6513, 49176, 65535>>
    [] g = 244 -> <<0, 6764, 49408, 65535>>
    [] g = 250 -> <<0, 7143, 49744, 65535>>
    [] g = 254 -> <<0, 7396, 49960, 65535>>
    [] g = 260 -> <<0, 7778, 50274, 65535>>
    [] g = 264 -> <<0, 8034, 50477, 65535>>
    [] g = 270 -> <<0, 8417, 50770, 65535>>
    [] g = 274 -> <<0, 8673, 50960, 65535>>
    [] g = 280 -> <<0, 9057, 51235, 65535>>
    [] g = 284 -> <<0, 9313, 51413, 65535>>
    [] g = 290 -> <<0, 9697, 51672, 65535>>
    [] g = 294 -> <<0, 9952, 51839, 65535>>
    [] g = 300 -> <<0, 10335, 52083, 65535>>
    [] g = 304 -> <<0, 10589, 52241, 65535>>
    [] g = 310 -> <<0, 10969, 52470, 65535>>
    [] g = 314 -> <<0, 11222, 52619, 65535>>
    [] g = 320 -> <<0, 11599, 52836, 65535>>
    [] g = 324 -> <<0, 11850, 52977, 65535>>
    [] g = 330 -> <<0, 12224, 53182, 65535>>
    [] g = 334 -> <<0, 12472, 53315, 65535>>
    [] g = 340 -> <<0, 12843, 53510, 65535>>
    [] g = 344 -> <<0, 13089, 53636, 65535>>
    [] g = 350 -> <<0, 13455, 53821, 65535>>
    [] g = 354 -> <<0, 13698, 53941, 65535>>
    [] g = 360 -> <<0, 14060, 54116, 65535>>
    [] g = 364 -> <<0, 14300, 54230, 65535>>
    [] g = 370 -> <<0, 14657, 54397, 65535>>
    [] g = 374 -> <<0, 14894, 54505, 65535>>
    [] g = 380 -> <<0, 15247, 54664, 65535>>
    [] g = 384 -> <<0, 15480, 54767, 65535>>
    [] g = 390 -> <<0, 15827, 54919, 65535>>
    [] g = 394 -> <<0, 16057, 55018, 65535>>
    [] g = 400 -> <<0, 16400, 55162, 65535>>
    [] g = 404 -> <<0, 16626, 55256, 65535>>
    [] g = 410 -> <<0, 16963, 55394, 65535>>
    [] g = 414 -> <<0, 17186, 55484, 65535>>
    [] g = 420 -> <<0, 17518, 55617, 65535>>
    [] g = 424 -> <<0, 17738, 55703, 65535>>
    [] g = 430 -> <<0, 18064, 55829, 65535>>
    [] g = 434 -> <<0, 18280, 55912, 65535>>
    [] g = 440 -> <<0, 18601, 56033, 65535>>
    [] g = 1000 -> <<0, 37655, 61170, 65535>>

\* The same for gamma 1.0 at every index 0..255.
NeutralCurve ==
    <<
       0, 257, 514, 771, 1028, 1285, 1542, 1799,
       2056, 2313, 2570, 2827, 3084, 3341, 3598, 3855,
       4112, 4369, 4626, 4883, 5140, 5397, 5654, 5911,
       6168, 6425, 6682, 6939, 7196, 7453, 7710, 7967,
       8224, 8481, 8738, 8995, 9252, 9509, 9766, 10023,
       10280, 10537, 10794, 11051, 11308, 11565, 11822, 12079,
       12336, 12593, 12850, 13107, 13364, 13621, 13878, 14135,
       14392, 14649, 14906, 15163, 15420, 15677, 15934, 16191,
       16448, 16705, 16962, 17219, 17476, 17733, 17990, 18247,
       18504, 18761, 19018, 19275, 19532, 19789, 20046, 20303,
       20560, 20817, 21074, 21331, 21588, 21845, 22102, 22359,
       22616, 22873, 23130, 23387, 23644, 23901, 24158, 24415,
       24672, 24929, 25186, 25443, 25700, 25957, 26214, 26471,
       26728, 26985, 27242, 27499, 27756, 28013, 28270, 28527,
       28784, 29041, 29298, 29555, 29812, 30069, 30326, 30583,
       30840, 31097, 31354, 31611, 31868, 32125, 32382, 32639,
       32896, 33153, 33410, 33667, 33924, 34181, 34438, 34695,
       34952, 35209, 35466, 35723, 35980, 36237, 36494, 36751,
       37008, 37265, 37522, 37779, 38036, 38293, 38550, 38807,
       39064, 39321, 39578, 39835, 40092, 40349, 40606, 40863,
       41120, 41377, 41634, 41891, 42148, 42405, 42662, 42919,
       43176, 43433, 43690, 43947, 44204, 44461, 44718, 44975,
       45232, 45489, 45746, 46003, 46260, 46517, 46774, 47031,
       47288, 47545, 47802, 48059, 48316, 48573, 48830, 49087,
       49344, 49601, 49858, 50115, 50372, 50629, 50886, 51143,
       51400, 51657, 51914, 52171, 52428, 52685, 52942, 53199,
       53456, 53713, 53970, 54227, 54484, 54741, 54998, 55255,
       55512, 55769, 56026, 56283, 56540, 56797, 57054, 57311,
       57568, 57825, 58082, 58339, 58596, 58853, 59110, 59367,
       59624, 59881, 60138, 60395, 60652, 60909, 61166, 61423,
       61680, 61937, 62194, 62451, 62708, 62965, 63222, 63479,
       63736, 63993, 64250, 64507, 64764, 65021, 65278, 65535
    >>

\* The gamma values CurveSamples is tabulated for: the steps of 0.1 from
\* 0.1 to 4.4, the steps of 0.1 from 0.04, and 10.0.
GammaDomain ==
    {4, 1000} \cup {GammaStep * n : n \in 1..(GammaMax \div GammaStep)}
              \cup {4 + GammaStep * n : n \in 1..((GammaMax \div GammaStep) - 1)}

\* Linear with i << 8 in place of i * 257.
LinearShifted == [n \in 1..Len(SampleIdx) |-> SampleIdx[n] * 256]

Linear == [n \in 1..Len(SampleIdx) |-> SampleIdx[n] * LinearScale]

BuildRaises(gamma) == gamma <= 0

\* _build_gamma_ramp that writes the curve to all channels in every mode.
BuildAllChannels(gamma, mode) ==
    [R |-> CurveSamples(gamma), G |-> CurveSamples(gamma), B |-> CurveSamples(gamma)]

_build_gamma_ramp(gamma, mode) ==
    LET v == CurveSamples(gamma)
    IN  IF mode = "blue"
        THEN [R |-> Linear, G |-> Linear, B |-> v]
        ELSE [R |-> v, G |-> v, B |-> v]

NoRamp == [R |-> <<>>, G |-> <<>>, B |-> <<>>]

\* ------------------------------------------------------- status text
Fmt1(g) == (g + 5) \div 10

get_status_text(en, g, m) ==
    [status |-> IF en THEN "ON" ELSE "OFF",
     gamma |-> Fmt1(g),
     color |-> IF m = "all" THEN "all colours" ELSE "blue"]

NoStatus == [status |-> "", gamma |-> 0, color |-> ""]

\* ------------------------------------------------------- transitions
\* Clamp without the upper limit.
ClampLowerOnly(g) == Max(GammaMin, g)

Clamp(g) == Max(GammaMin, Min(GammaMax, g))

ModeIndex(m) == CHOOSE n \in 1..Len(Modes) : Modes[n] = m

\* NextMode that always lands on the last mode of the list.
NextModeLast(m) == Modes[Len(Modes)]

NextMode(m) == Modes[(ModeIndex(m) % Len(Modes)) + 1]

OpOf(k) ==
    CASE k = "F2" -> "toggle"
      [] k = "F3" -> "change_gamma"
      [] k = "F4" -> "change_gamma"
      [] k = "F5" -> "cycle_color_mode"

\* DeltaOf with steps of twice the size.
DeltaOfDouble(k) ==
    CASE k = "F3" -> 2 * GammaStep
      [] k = "F4" -> 0 - 2 * GammaStep
      [] OTHER -> 0

DeltaOf(k) ==
    CASE k = "F3" -> GammaStep
      [] k = "F4" -> 0 - GammaStep
      [] OTHER -> 0

VARIABLES
    file, config,                               \* the config file on disk, self.config
    current_gamma, enabled, color_mode, last_status,
    pc, keyIdx, key_states, exc,                \* main(): position, for-loop index, latches
    op, opc, delta,                             \* the controller method being executed
    apc, ramp, i, any_applied, hdc,             \* _set_ramp_on_all_active_displays frame
    devices, held,                              \* the OS: displays, open device contexts
    lastRamp, oscalls,                          \* last ramp handed over, OS calls of that call
    edges, fired, prevSample, downRun,          \* per key: rising edges sampled, commands
                                                \* dispatched, last sample, pressed samples in a row
    hist, opPre, resets, redraws                \* completed transitions, resets, redraws

diskVars == <<file, config>>
ctlVars  == <<current_gamma, enabled, color_mode, last_status>>
mainVars == <<pc, keyIdx, key_states, exc>>
opVars   == <<op, opc, delta>>
appVars  == <<apc, ramp, i, any_applied, hdc>>
keyObs   == <<edges, fired, prevSample, downRun>>
vars == <<file, config, current_gamma, enabled, color_mode, last_status,
          pc, keyIdx, key_states, exc, op, opc, delta,
          apc, ramp, i, any_applied, hdc,
          devices, held,
          lastRamp, oscalls, edges, fired, prevSample, downRun,
          hist, opPre, resets, redraws>>

\* The controller state a transition can change, with the ramp in force.
Snap == [enabled |-> enabled, gamma |-> current_gamma, mode |-> color_mode,
         ramp |-> lastRamp, file |-> file]

Event(c, h, r) == [call |-> c, dc |-> h, res |-> r]

RECURSIVE Remove(_, _)
Remove(s, h) ==
    IF s = <<>> THEN <<>>
    ELSE IF Head(s) = h THEN Tail(s)
    ELSE <<Head(s)>> \o Remove(Tail(s), h)

Push2(s, e) == IF Len(s) < 2 THEN Append(s, e) ELSE <<s[2], e>>

Init ==
    /\ file \in FileChoices
    /\ config = load_config(file)
    /\ current_gamma = config.gamma
    /\ enabled = FALSE
    /\ color_mode = config.color_mode
    /\ last_status = NoStatus
    /\ pc = "startup_reset" /\ keyIdx = 1 /\ exc = "none"
    /\ key_states = [k \in KeySet |-> FALSE]
    /\ op = "reset_gamma" /\ opc = "mutate" /\ delta = 0
    /\ apc = "idle" /\ ramp = NoRamp /\ i = 0 /\ any_applied = FALSE /\ hdc = NULL
    /\ devices \in DeviceLists
    /\ held = <<>>
    /\ lastRamp = NoRamp /\ oscalls = <<>>
    /\ edges = [k \in KeySet |-> 0]
    /\ fired = [k \in KeySet |-> 0]
    /\ prevSample = [k \in KeySet |-> FALSE]
    /\ downRun = [k \in KeySet |-> 0]
    /\ hist = <<>>
    /\ opPre = [enabled |-> FALSE, gamma |-> config.gamma, mode |-> config.color_mode,
                ramp |-> NoRamp, file |-> file]
    /\ resets = 0 /\ redraws = 0

\* Latch that writes the sample into the latch of every key.
LatchAll(latches, k, sample) == [j \in KeySet |-> sample]

\* line 213: the latch of the key takes the sample
Latch(latches, k, sample) == [latches EXCEPT ![k] = sample]

\* A controller method returns to main().
OpReturn ==
    /\ op' = "none" /\ opc' = "idle" /\ delta' = 0
    /\ exc' = exc
    /\ CASE pc = "startup_reset" ->
              pc' = "startup_render" /\ UNCHANGED <<keyIdx, key_states, hist>>
         [] pc = "final_reset" ->
              pc' = "done" /\ UNCHANGED <<keyIdx, key_states, hist>>
         [] pc = "poll" ->
              /\ key_states' = Latch(key_states, Keys[keyIdx], TRUE)
              /\ hist' = Push2(hist, [op |-> op, delta |-> delta, pre |-> opPre, post |-> Snap])
              /\ IF keyIdx < Len(Keys)
                 THEN pc' = "poll" /\ keyIdx' = keyIdx + 1
                 ELSE pc' = "sleep" /\ keyIdx' = 1

\* _set_ramp_on_all_active_displays returns to apply_gamma, which returns to
\* its caller: reset_gamma returns to main(), toggle goes on to line 134,
\* change_gamma and cycle_color_mode to save_config.
ApplyReturn ==
    /\ apc' = "idle" /\ ramp' = NoRamp /\ i' = 0 /\ any_applied' = FALSE /\ hdc' = NULL
    /\ IF op = "reset_gamma"
       THEN OpReturn
       ELSE /\ opc' = IF op = "toggle" THEN "render" ELSE "save"
            /\ UNCHANGED <<op, delta, mainVars, hist>>

\* UnwindLog without the finally clause of main(): the process ends at once.
UnwindNoReset(e, log) ==
    /\ exc' = e
    /\ held' = IF apc \in {"set", "delete"} THEN Remove(held, hdc) ELSE held
    /\ oscalls' = IF apc \in {"set", "delete"}
                  THEN Append(log, Event("DeleteDC", hdc, "ok")) ELSE log
    /\ apc' = "idle" /\ ramp' = NoRamp /\ i' = 0 /\ any_applied' = FALSE /\ hdc' = NULL
    /\ delta' = 0
    /\ pc' = "done" /\ op' = "none" /\ opc' = "idle" /\ opPre' = Snap
    /\ keyIdx' = 1
    /\ key_states' = [k \in KeySet |-> FALSE]
    /\ edges' = [k \in KeySet |-> 0]
    /\ fired' = [k \in KeySet |-> 0]
    /\ prevSample' = [k \in KeySet |-> FALSE]
    /\ downRun' = [k \in KeySet |-> 0]
    /\ hist' = <<>>

\* ------------------------------------------------- control transfer
\* An exception leaves the frames above main(): the finally clause of lines
\* 112-113 releases a per-display context, nothing releases the fallback
\* context.  In the try body of main() it reaches the finally clause of
\* line 219, which calls reset_gamma; raised by that call it ends the process.
\* The locals of the polling loop are not used again, and what was observed
\* of the loop (edges, fired, prevSample, downRun, hist) ends with it.
UnwindLog(e, log) ==
    /\ exc' = e
    /\ held' = IF apc \in {"set", "delete"} THEN Remove(held, hdc) ELSE held
    /\ oscalls' = IF apc \in {"set", "delete"}
                  THEN Append(log, Event("DeleteDC", hdc, "ok")) ELSE log
    /\ apc' = "idle" /\ ramp' = NoRamp /\ i' = 0 /\ any_applied' = FALSE /\ hdc' = NULL
    /\ delta' = 0
    /\ IF pc = "final_reset"
       THEN pc' = "crashed" /\ op' = "none" /\ opc' = "idle" /\ opPre' = opPre
       ELSE pc' = "final_reset" /\ op' = "reset_gamma" /\ opc' = "mutate" /\ opPre' = Snap
    /\ keyIdx' = 1
    /\ key_states' = [k \in KeySet |-> FALSE]
    /\ edges' = [k \in KeySet |-> 0]
    /\ fired' = [k \in KeySet |-> 0]
    /\ prevSample' = [k \in KeySet |-> FALSE]
    /\ downRun' = [k \in KeySet |-> 0]
    /\ hist' = <<>>

Unwind(e) == UnwindLog(e, oscalls)

\* ------------------------------------------------ GammaController
\* ToggleValue that switches on instead of flipping.
ToggleOn(en) == TRUE

ToggleValue(en) == ~en

\* ApplyTarget that ignores the enabled flag.
ApplyTargetCurrent(en, g) == g

ApplyTarget(en, g) == IF en THEN g ELSE NeutralGamma

\* NeedsApply that never re-applies.
NeverApply(en) == FALSE

\* lines 138 and 147
NeedsApply(en) == en

\* reset_gamma, line 178
reset_gamma ==
    /\ op = "reset_gamma" /\ opc = "mutate"
    /\ enabled' = FALSE
    /\ opc' = "apply"
    /\ resets' = resets + 1
    /\ UNCHANGED <<diskVars, current_gamma, color_mode, last_status, mainVars, op, delta,
                   appVars, devices, held, lastRamp, oscalls, keyObs, hist, opPre,
                   redraws>>

\* toggle, line 131
toggle ==
    /\ op = "toggle" /\ opc = "mutate"
    /\ enabled' = ToggleValue(enabled)
    /\ opc' = "apply"
    /\ UNCHANGED <<diskVars, current_gamma, color_mode, last_status, mainVars, op, delta,
                   appVars, devices, held, lastRamp, oscalls, keyObs, hist, opPre,
                   resets, redraws>>

\* change_gamma that saves only on the path that applies the ramp.
change_gamma_unsaved ==
    /\ op = "change_gamma" /\ opc = "mutate"
    /\ current_gamma' = Clamp(current_gamma + delta)
    /\ opc' = IF NeedsApply(enabled) THEN "apply" ELSE "render"
    /\ UNCHANGED <<diskVars, enabled, color_mode, last_status, mainVars, op, delta,
                   appVars, devices, held, lastRamp, oscalls, keyObs, hist, opPre,
                   resets, redraws>>

\* change_gamma, lines 137-138
change_gamma ==
    /\ op = "change_gamma" /\ opc = "mutate"
    /\ current_gamma' = Clamp(current_gamma + delta)
    /\ opc' = IF NeedsApply(enabled) THEN "apply" ELSE "save"
    /\ UNCHANGED <<diskVars, enabled, color_mode, last_status, mainVars, op, delta,
                   appVars, devices, held, lastRamp, oscalls, keyObs, hist, opPre,
                   resets, redraws>>

\* cycle_color_mode, lines 144-147
cycle_color_mode ==
    /\ op = "cycle_color_mode" /\ opc = "mutate"
    /\ color_mode \in ModeSet
    /\ color_mode' = NextMode(color_mode)
    /\ opc' = IF NeedsApply(enabled) THEN "apply" ELSE "save"
    /\ UNCHANGED <<diskVars, current_gamma, enabled, last_status, mainVars, op, delta,
                   appVars, devices, held, lastRamp, oscalls, keyObs, hist, opPre,
                   resets, redraws>>

\* cycle_color_mode, line 145: modes.index raises ValueError for a mode
\* that is not in the list
cycle_color_mode_raise ==
    /\ op = "cycle_color_mode" /\ opc = "mutate"
    /\ color_mode \notin ModeSet
    /\ Unwind("ValueError")
    /\ UNCHANGED <<diskVars, ctlVars, devices, lastRamp, resets, redraws>>

\* apply_gamma, lines 123-128, and the entry of the applicator, lines 97-98
apply_gamma ==
    /\ opc = "apply"
    /\ ~BuildRaises(ApplyTarget(enabled, current_gamma))
    /\ ramp' = _build_gamma_ramp(ApplyTarget(enabled, current_gamma), color_mode)
    /\ lastRamp' = ramp'
    /\ opc' = "applying" /\ apc' = "enum" /\ i' = 0 /\ any_applied' = FALSE
    /\ oscalls' = <<>>
    /\ UNCHANGED <<diskVars, ctlVars, mainVars, op, delta, hdc, devices, held,
                   keyObs, hist, opPre, resets, redraws>>

\* _build_gamma_ramp, line 76 (and line 80 for a negative gamma): the
\* division raises ZeroDivisionError
apply_gamma_raise ==
    /\ opc = "apply"
    /\ BuildRaises(ApplyTarget(enabled, current_gamma))
    /\ Unwind("ZeroDivisionError")
    /\ UNCHANGED <<diskVars, ctlVars, devices, lastRamp, resets, redraws>>

\* save_config, lines 65-72
save_config ==
    /\ opc = "save"
    /\ config' = ConfigUpdate(config, current_gamma, color_mode)
    /\ file' = FileDump(config')
    /\ opc' = "render"
    /\ oscalls' = <<>>
    /\ UNCHANGED <<ctlVars, mainVars, op, delta, appVars, devices, held, lastRamp,
                   keyObs, hist, opPre, resets, redraws>>

\* save_config, line 71: open() raises OSError, after line 67 updated self.config
save_config_raise ==
    /\ opc = "save"
    /\ config' = ConfigUpdate(config, current_gamma, color_mode)
    /\ Unwind("OSError")
    /\ UNCHANGED <<file, ctlVars, devices, lastRamp, resets, redraws>>

\* Redraw that redraws at every render.
RedrawAlways(new, last) == TRUE

\* Redraw that never redraws.
RedrawNever(new, last) == FALSE

\* line 172
Redraw(new, last) == new # last

\* update_display, lines 170-175, as the last statement of a transition
update_display ==
    /\ opc = "render"
    /\ LET new_status == get_status_text(enabled, current_gamma, color_mode)
       IN  IF Redraw(new_status, last_status)
           THEN last_status' = new_status /\ redraws' = redraws + 1
           ELSE UNCHANGED <<last_status, redraws>>
    /\ OpReturn
    /\ oscalls' = <<>>
    /\ UNCHANGED <<diskVars, current_gamma, enabled, color_mode, appVars, devices,
                   held, lastRamp, keyObs, opPre, resets>>

\* --------------------------- _set_ramp_on_all_active_displays
\* IsActive that takes every device for active.
IsActiveAlways(flag) == TRUE

\* line 106
IsActive(flag) == flag

\* NeedsFallback that never falls back.
NeverFallback(applied) == FALSE

\* NeedsFallback that falls back only when no device is active.
FallbackIfNoneActive(applied) == ~applied /\ \A n \in 1..Len(devices) : ~devices[n]

NeedsFallback(applied) == ~applied

\* lines 100-106 and 114: the next device; an inactive one is skipped
EnumDisplayDevices ==
    /\ apc = "enum"
    /\ IF i >= Len(devices)
       THEN apc' = "check" /\ i' = i
       ELSE IF IsActive(devices[i + 1])
            THEN apc' = "create" /\ i' = i
            ELSE apc' = "enum" /\ i' = i + 1
    /\ UNCHANGED <<diskVars, ctlVars, mainVars, opVars, ramp, any_applied, hdc, devices,
                   held, lastRamp, oscalls, keyObs, hist, opPre, resets, redraws>>

\* lines 107-109: the device context is acquired and the try block entered
CreateDCW ==
    /\ apc = "create"
    /\ hdc' = DisplayDC(i)
    /\ held' = Append(held, DisplayDC(i))
    /\ oscalls' = Append(oscalls, Event("CreateDCW", DisplayDC(i), "ok"))
    /\ apc' = "set"
    /\ UNCHANGED <<diskVars, ctlVars, mainVars, opVars, ramp, i, any_applied, devices,
                   lastRamp, keyObs, hist, opPre, resets, redraws>>

\* lines 107-108 and 114: CreateDCW returns NULL, the device is skipped
CreateDCW_null ==
    /\ apc = "create"
    /\ oscalls' = Append(oscalls, Event("CreateDCW", DisplayDC(i), "null"))
    /\ i' = i + 1
    /\ apc' = "enum"
    /\ UNCHANGED <<diskVars, ctlVars, mainVars, opVars, ramp, any_applied, hdc, devices,
                   held, lastRamp, keyObs, hist, opPre, resets, redraws>>

\* lines 110-111: the return value of SetDeviceGammaRamp is not looked at
SetDeviceGammaRamp ==
    /\ apc = "set"
    /\ \E r \in {"true", "false"} :
         oscalls' = Append(oscalls, Event("SetDeviceGammaRamp", hdc, r))
    /\ any_applied' = TRUE
    /\ apc' = "delete"
    /\ UNCHANGED <<diskVars, ctlVars, mainVars, opVars, ramp, i, hdc, devices, held,
                   lastRamp, keyObs, hist, opPre, resets, redraws>>

\* line 110 raises (ctypes turns a fault inside the call into OSError): the
\* finally clause of lines 112-113 deletes the context
SetDeviceGammaRamp_raise ==
    /\ apc = "set"
    /\ UnwindLog("OSError", Append(oscalls, Event("SetDeviceGammaRamp", hdc, "raise")))
    /\ UNCHANGED <<diskVars, ctlVars, devices, lastRamp, resets, redraws>>

\* lines 113-114
DeleteDC ==
    /\ apc = "delete"
    /\ held' = Remove(held, hdc)
    /\ oscalls' = Append(oscalls, Event("DeleteDC", hdc, "ok"))
    /\ hdc' = NULL
    /\ i' = i + 1
    /\ apc' = "enum"
    /\ UNCHANGED <<diskVars, ctlVars, mainVars, opVars, ramp, any_applied, devices,
                   lastRamp, keyObs, hist, opPre, resets, redraws>>

\* line 116: a context was used, the call returns
NoFallback ==
    /\ apc = "check"
    /\ ~NeedsFallback(any_applied)
    /\ oscalls' = Append(oscalls, Event("return", NULL, "ok"))
    /\ ApplyReturn
    /\ UNCHANGED <<diskVars, ctlVars, devices, held, lastRamp, keyObs, opPre,
                   resets, redraws>>

\* lines 116-119: the context of the whole screen is acquired
GetDC ==
    /\ apc = "check"
    /\ NeedsFallback(any_applied)
    /\ hdc' = ScreenDC
    /\ held' = Append(held, ScreenDC)
    /\ oscalls' = Append(oscalls, Event("GetDC", ScreenDC, "ok"))
    /\ apc' = "fb_set"
    /\ UNCHANGED <<diskVars, ctlVars, mainVars, opVars, ramp, i, any_applied, devices,
                   lastRamp, keyObs, hist, opPre, resets, redraws>>

\* lines 116-119: GetDC returns NULL, the call returns
GetDC_null ==
    /\ apc = "check"
    /\ NeedsFallback(any_applied)
    /\ oscalls' = oscalls \o <<Event("GetDC", ScreenDC, "null"), Event("return", NULL, "ok")>>
    /\ ApplyReturn
    /\ UNCHANGED <<diskVars, ctlVars, devices, held, lastRamp, keyObs, opPre, resets,
                   redraws>>

\* line 120
FallbackSetDeviceGammaRamp ==
    /\ apc = "fb_set"
    /\ \E r \in {"true", "false"} :
         oscalls' = Append(oscalls, Event("SetDeviceGammaRamp", hdc, r))
    /\ apc' = "fb_release"
    /\ UNCHANGED <<diskVars, ctlVars, mainVars, opVars, ramp, i, any_applied, hdc, devices,
                   held, lastRamp, keyObs, hist, opPre, resets, redraws>>

\* line 120 raises: no finally clause stands between it and the caller
FallbackSetDeviceGammaRamp_raise ==
    /\ apc = "fb_set"
    /\ UnwindLog("OSError", Append(oscalls, Event("SetDeviceGammaRamp", hdc, "raise")))
    /\ UNCHANGED <<diskVars, ctlVars, devices, lastRamp, resets, redraws>>

\* line 121
ReleaseDC ==
    /\ apc = "fb_release"
    /\ held' = Remove(held, hdc)
    /\ oscalls' = oscalls \o <<Event("ReleaseDC", hdc, "ok"), Event("return", NULL, "ok")>>
    /\ ApplyReturn
    /\ UNCHANGED <<diskVars, ctlVars, devices, lastRamp, keyObs, opPre, resets,
                   redraws>>

\* ------------------------------------------------------------ main
\* The key presses the user has made so far.
Pressed == edges["F2"] + edges["F3"] + edges["F4"] + edges["F5"]

\* RisingEdge that fires on the level of the key.
LevelTriggered(current_state, latched) == current_state

RisingEdge(current_state, latched) == current_state /\ ~latched

\* line 187 and lines 190-195
main_update_display ==
    /\ pc = "startup_render" /\ op = "none"
    /\ LET new_status == get_status_text(enabled, current_gamma, color_mode)
       IN  IF Redraw(new_status, last_status)
           THEN last_status' = new_status /\ redraws' = redraws + 1
           ELSE UNCHANGED <<last_status, redraws>>
    /\ pc' = "poll" /\ keyIdx' = 1
    /\ key_states' = [k \in KeySet |-> FALSE]
    /\ oscalls' = <<>>
    /\ UNCHANGED <<diskVars, current_gamma, enabled, color_mode, exc, opVars, appVars,
                   devices, held, lastRamp, keyObs, hist, opPre, resets>>

\* lines 199-213 for one key, with the sample GetAsyncKeyState returned: on
\* a rising edge the key's command is called (the latch is then set when
\* the command returns), otherwise the latch takes the sample
PollKey(current_state) ==
    LET k == Keys[keyIdx]
    IN  /\ pc = "poll" /\ op = "none"
        /\ edges' = [edges EXCEPT ![k] = IF current_state /\ ~prevSample[k]
                                         THEN @ + 1 ELSE @]
        /\ prevSample' = [prevSample EXCEPT ![k] = current_state]
        /\ downRun' = [downRun EXCEPT ![k] = IF current_state
                                             THEN Min(@ + 1, MaxHold) ELSE 0]
        /\ IF RisingEdge(current_state, key_states[k])
           THEN /\ op' = OpOf(k) /\ delta' = DeltaOf(k) /\ opc' = "mutate"
                /\ fired' = [fired EXCEPT ![k] = @ + 1]
                /\ opPre' = Snap
                /\ UNCHANGED <<pc, keyIdx, key_states>>
           ELSE /\ key_states' = Latch(key_states, k, current_state)
                /\ IF keyIdx < Len(Keys)
                   THEN pc' = "poll" /\ keyIdx' = keyIdx + 1
                   ELSE pc' = "sleep" /\ keyIdx' = 1
                /\ UNCHANGED <<opVars, fired, opPre>>
        /\ UNCHANGED <<diskVars, ctlVars, exc, appVars, devices, held, lastRamp,
                       oscalls, hist, resets, redraws>>

\* A new press of the key: the sample is down and the last one was not.
NewPress(current_state) == current_state /\ ~prevSample[Keys[keyIdx]]

\* line 200: the key is sampled, up or down; the user presses a key at most
\* MaxPresses times
main_poll ==
    /\ pc = "poll" /\ op = "none"
    /\ \E current_state \in BOOLEAN :
         /\ NewPress(current_state) => Pressed < MaxPresses
         /\ PollKey(current_state)

\* line 215 and the loop test of line 197 (running is never cleared)
main_sleep ==
    /\ pc = "sleep"
    /\ pc' = "poll"
    /\ UNCHANGED <<diskVars, ctlVars, keyIdx, key_states, exc, opVars, appVars, devices,
                   held, lastRamp, oscalls, keyObs, hist, opPre, resets,
                   redraws>>

\* Ctrl-C: Python raises KeyboardInterrupt in the main thread between any
\* two steps of the try body, lines 184-215
KeyboardInterrupt ==
    /\ pc \in {"startup_reset", "startup_render", "poll", "sleep"}
    /\ Unwind("KeyboardInterrupt")
    /\ UNCHANGED <<diskVars, ctlVars, devices, lastRamp, resets, redraws>>

Next ==
    \/ reset_gamma
    \/ toggle
    \/ change_gamma
    \/ cycle_color_mode
    \/ cycle_color_mode_raise
    \/ apply_gamma
    \/ apply_gamma_raise
    \/ save_config
    \/ save_config_raise
    \/ update_display
    \/ EnumDisplayDevices
    \/ CreateDCW
    \/ CreateDCW_null
    \/ SetDeviceGammaRamp
    \/ SetDeviceGammaRamp_raise
    \/ DeleteDC
    \/ NoFallback
    \/ GetDC
    \/ GetDC_null
    \/ FallbackSetDeviceGammaRamp
    \/ FallbackSetDeviceGammaRamp_raise
    \/ ReleaseDC
    \/ main_update_display
    \/ main_poll
    \/ main_sleep
    \/ KeyboardInterrupt

Spec == Init /\ [][Next]_vars

\* ------------------------------------------------- a scripted session
\* The process starts without a config file, the user presses the keys of
\* Script one after the other and then Ctrl-C; the OS may refuse device
\* contexts and ramps, and no call raises.
Script == <<"F2", "F3", "F5", "F2">>

ScenarioInit == Init /\ file = NoFile

scenario_poll ==
    /\ pc = "poll" /\ op = "none"
    /\ \E current_state \in BOOLEAN :
         /\ NewPress(current_state) =>
               Pressed < Len(Script) /\ Keys[keyIdx] = Script[Pressed + 1]
         /\ PollKey(current_state)

scenario_interrupt ==
    /\ Pressed = Len(Script) /\ op = "none"
    /\ KeyboardInterrupt

ScenarioNext ==
    \/ reset_gamma
    \/ toggle
    \/ change_gamma
    \/ cycle_color_mode
    \/ apply_gamma
    \/ save_config
    \/ update_display
    \/ EnumDisplayDevices
    \/ CreateDCW
    \/ CreateDCW_null
    \/ SetDeviceGammaRamp
    \/ DeleteDC
    \/ NoFallback
    \/ GetDC
    \/ GetDC_null
    \/ FallbackSetDeviceGammaRamp
    \/ ReleaseDC
    \/ main_update_display
    \/ scenario_poll
    \/ main_sleep
    \/ scenario_interrupt

ScenarioSpec == ScenarioInit /\ [][ScenarioNext]_vars

\* ------------------------------------------------- the ramp builder alone
\* apply_gamma is about to build the ramp, for every tabulated gamma, both
\* colour modes, enabled or not; the only step is the build.
BuildInit ==
    /\ current_gamma \in GammaDomain
    /\ color_mode \in ModeSet
    /\ enabled \in BOOLEAN
    /\ config = [DEFAULT_CONFIG EXCEPT !.gamma = current_gamma, !.color_mode = color_mode]
    /\ file = FileDump(config)
    /\ last_status = get_status_text(~enabled, current_gamma, color_mode)
    /\ pc = "poll" /\ keyIdx = 1 /\ exc = "none"
    /\ key_states = [k \in KeySet |-> FALSE]
    /\ op = "toggle" /\ opc = "apply" /\ delta = 0
    /\ apc = "idle" /\ ramp = NoRamp /\ i = 0 /\ any_applied = FALSE /\ hdc = NULL
    /\ devices \in DeviceLists
    /\ held = <<>>
    /\ lastRamp = _build_gamma_ramp(ApplyTarget(~enabled, current_gamma), color_mode)
    /\ oscalls = <<>>
    /\ edges = [k \in KeySet |-> IF k = "F2" THEN 1 ELSE 0]
    /\ fired = edges
    /\ prevSample = [k \in KeySet |-> k = "F2"]
    /\ downRun = [k \in KeySet |-> IF k = "F2" THEN 1 ELSE 0]
    /\ hist = <<>>
    /\ opPre = [enabled |-> ~enabled, gamma |-> current_gamma, mode |-> color_mode,
                ramp |-> lastRamp, file |-> file]
    /\ resets = 1 /\ redraws = 1

BuildSpec == BuildInit /\ [][apply_gamma]_vars

\* ====================================================== properties
InDomain(g) == GammaMin <= g /\ g <= GammaMax

\* The identity table: i * 257 in all three channels.
NeutralRamp == [R |-> Linear, G |-> Linear, B |-> Linear]

\* The ramp the controller state s asks for.
RampInForce(s) ==
    IF s.enabled THEN _build_gamma_ramp(s.gamma, s.mode) ELSE NeutralRamp

Entries == {hist[n] : n \in 1..Len(hist)}

PairOf(name) == Len(hist) = 2 /\ hist[1].op = name /\ hist[2].op = name

\* C1: after change_gamma has clamped, and after every completed
\* change_gamma whatever the gamma before it and the delta, the gamma lies
\* in [0.1, 4.4]; no transition takes an in-range gamma out of the range;
\* +0.1 at 4.4 leaves 4.4 and -0.1 at 0.1 leaves 0.1.
C1_GammaStaysInDomain ==
    /\ (op = "change_gamma" /\ opc # "mutate") => InDomain(current_gamma)
    /\ \A h \in Entries :
         /\ h.op = "change_gamma" => InDomain(h.post.gamma)
         /\ InDomain(h.pre.gamma) => InDomain(h.post.gamma)
         /\ (h.op = "change_gamma" /\ h.pre.gamma = GammaMax /\ h.delta = GammaStep)
                => h.post.gamma = GammaMax
         /\ (h.op = "change_gamma" /\ h.pre.gamma = GammaMin /\ h.delta = 0 - GammaStep)
                => h.post.gamma = GammaMin

\* C1 witness: +0.1 was applied twice in a row at 4.4.
C1_Witness ==
    /\ PairOf("change_gamma")
    /\ \A n \in 1..2 : hist[n].delta = GammaStep /\ hist[n].pre.gamma = GammaMax
    /\ current_gamma = GammaMax

\* C2: for every key, the commands dispatched so far are as many as the
\* rising edges in the samples taken of it so far.
C2_OneCommandPerRisingEdge ==
    \A k \in KeySet : fired[k] = edges[k]

\* C2 witness: F2 was sampled pressed in MaxHold ticks in a row, one toggle
\* was dispatched and has returned.
C2_Witness ==
    /\ pc = "sleep"
    /\ downRun["F2"] = MaxHold
    /\ MaxHold >= 2
    /\ fired["F2"] = 1
    /\ \E h \in Entries : h.op = "toggle"

C4_CycleIsTwoCycle ==
    /\ \A h \in Entries : h.op = "cycle_color_mode" => h.post.mode # h.pre.mode
    /\ PairOf("cycle_color_mode") =>
         /\ hist[2].post.mode = hist[1].pre.mode
         /\ hist[1].pre.mode = "all" => hist[1].post.mode = "blue"
         /\ hist[1].pre.mode = "blue" => hist[1].post.mode = "all"

\* C4 witness: blue -> all -> blue.
C4_Witness ==
    /\ PairOf("cycle_color_mode")
    /\ hist[1].pre.mode = "blue"
    /\ color_mode = "blue"

\* C5: when reset_gamma has handed its ramp over, and when it has
\* returned, enabled is false, the ramp handed over is the identity in all
\* three channels, and gamma, colour mode and config file are the ones
\* before the call.
ResetApplied ==
    \/ op = "reset_gamma" /\ opc = "applying"
    \/ pc \in {"startup_render", "done"}

C5_ResetNeutral ==
    ResetApplied =>
        /\ ~enabled
        /\ lastRamp = NeutralRamp
        /\ current_gamma = opPre.gamma
        /\ color_mode = opPre.mode
        /\ file = opPre.file

\* C5 witness: reset_gamma returned, called while enabled with a blue-only
\* gamma curve in force.
C5_Witness ==
    /\ pc = "done"
    /\ opPre.enabled
    /\ opPre.mode = "blue"
    /\ opPre.ramp # NeutralRamp
    /\ lastRamp = NeutralRamp


\* The OS calls of the applicator call in progress or just returned.
Logged(name, res) == {n \in 1..Len(oscalls) : oscalls[n].call = name /\ oscalls[n].res = res}

LoggedOn(name, h) == {n \in 1..Len(oscalls) : oscalls[n].call = name /\ oscalls[n].dc = h}

Returned == Logged("return", "ok") # {}

AcquiredAny == Logged("CreateDCW", "ok") # {}

AcquisitionFailed == Logged("CreateDCW", "null") # {}

FallbackAttempted == Logged("GetDC", "ok") \cup Logged("GetDC", "null") # {}

ChangesDispatched == fired["F3"] + fired["F4"] + fired["F5"]

\* C6: every completed change_gamma and cycle_color_mode, enabled or not,
\* gamma changed or not, leaves the file holding the gamma and colour mode
\* after it; toggle and reset_gamma leave the file as it was; between two
\* transitions, once a change_gamma or cycle_color_mode has run, the file
\* holds the gamma and colour mode in memory; no enabled key is written.
C6_ConfigSaved ==
    /\ \A h \in Entries :
         /\ h.op \in {"change_gamma", "cycle_color_mode"} =>
              /\ h.post.file.exists
              /\ {"gamma", "color_mode"} \subseteq h.post.file.keys
              /\ h.post.file.gamma = h.post.gamma
              /\ h.post.file.color_mode = h.post.mode
         /\ h.op = "toggle" => h.post.file = h.pre.file
    /\ (op \in {"toggle", "reset_gamma"} \/ pc \in {"startup_render", "done"})
          => file = opPre.file
    /\ (pc \in {"poll", "sleep"} /\ op = "none" /\ ChangesDispatched > 0)
          => file.gamma = current_gamma /\ file.color_mode = color_mode
    /\ "enabled" \notin file.keys

\* C6 witness: change_gamma(+0.1) completed while disabled at 4.4, the
\* gamma did not change, and the file was written all the same.
C6_Witness ==
    /\ pc \in {"poll", "sleep"} /\ op = "none"
    /\ \E h \in Entries :
         /\ h.op = "change_gamma" /\ ~h.pre.enabled
         /\ h.pre.gamma = h.post.gamma
         /\ h.post.file # h.pre.file
         /\ h.post.file.gamma = GammaMax

\* C7: the process ends only after reset_gamma was called again: with
\* enabled false and the identity ramp the last one handed over, whether
\* Ctrl-C or an exception of a transition ended the loop; and the first
\* render and the first poll come after the reset_gamma of startup.
C7_ResetAtStartAndExit ==
    /\ pc \in {"done", "crashed"} =>
          ~enabled /\ lastRamp = NeutralRamp /\ exc # "none" /\ resets >= 1
    /\ pc \in {"startup_render", "poll", "sleep"} =>
          resets = 1 /\ lastRamp # NoRamp
    /\ (last_status # NoStatus \/ Pressed > 0) => resets >= 1

\* C7 witness: cycle_color_mode raised while a gamma curve was in force,
\* and the process ended with the identity ramp handed over.
C7_Witness ==
    /\ pc = "done"
    /\ exc = "ValueError"
    /\ opPre.enabled /\ opPre.ramp # NeutralRamp
    /\ ~enabled /\ lastRamp = NeutralRamp

\* C8: the screen context is asked for only if no per-display context was
\* acquired; a call that returns without having acquired one has asked for
\* it; and once acquired it gets the ramp exactly once and is released.
C8_FallbackWhenNoneAcquired ==
    /\ FallbackAttempted => ~AcquiredAny
    /\ (Returned /\ ~AcquiredAny) => FallbackAttempted
    /\ (Returned /\ Logged("GetDC", "ok") # {}) =>
          /\ Cardinality(LoggedOn("SetDeviceGammaRamp", ScreenDC)) = 1
          /\ Cardinality(LoggedOn("ReleaseDC", ScreenDC)) = 1
          /\ \A a \in Logged("GetDC", "ok") :
               \A b \in LoggedOn("SetDeviceGammaRamp", ScreenDC) :
                 \A c \in LoggedOn("ReleaseDC", ScreenDC) : a < b /\ b < c
    /\ Logged("GetDC", "ok") = {} => LoggedOn("SetDeviceGammaRamp", ScreenDC) = {}

\* C8 witness: no display was active, the screen context was acquired,
\* got the ramp and was released, and the call returned.
C8_Witness ==
    /\ Returned
    /\ LoggedOn("CreateDCW", DisplayDC(0)) = {} /\ ~AcquiredAny /\ ~AcquisitionFailed
    /\ Logged("GetDC", "ok") # {}
    /\ LoggedOn("SetDeviceGammaRamp", ScreenDC) # {}
    /\ LoggedOn("ReleaseDC", ScreenDC) # {}

\* C9 as stated: the screen context is asked for only when no active
\* device was enumerated, not after failed acquisitions.
C9_FallbackOnlyWithoutActiveDevice ==
    FallbackAttempted => ~AcquisitionFailed

\* C9 amended: the screen context is also asked for when active devices
\* were enumerated and every acquisition failed.
C9_FallbackAfterFailedAcquisitions ==
    (Returned /\ AcquisitionFailed /\ ~AcquiredAny) => FallbackAttempted

\* C9 witness: two active devices, both acquisitions failed, and the
\* screen context was asked for.
C9_Witness ==
    /\ Returned
    /\ Cardinality(Logged("CreateDCW", "null")) = 2 /\ ~AcquiredAny
    /\ FallbackAttempted

\* C10 as stated: at most one device context is open at any moment, and
\* none is open when the applicator is not running, when it asks for the
\* next device, or while the loop sleeps.
C10_ContextsReleased ==
    /\ Len(held) <= 1
    /\ apc \in {"idle", "enum"} => held = <<>>
    /\ pc = "sleep" => held = <<>>

\* The status text of a controller state.
Shown(s) == get_status_text(s.enabled, s.gamma, s.mode)

FiredTotal == fired["F2"] + fired["F3"] + fired["F4"] + fired["F5"]

\* Between two transitions of the polling loop.
LoopIdle == pc \in {"poll", "sleep"} /\ op = "none"

\* update_display is about to run.
Rendering == opc = "render" \/ (pc = "startup_render" /\ op = "none")

\* The completed transitions that changed the status text.
VisibleChanges == {n \in 1..Len(hist) : Shown(hist[n].pre) # Shown(hist[n].post)}

\* C11: a step redraws at most once, redraws exactly when it changes
\* last_status, and the render step redraws exactly when the computed text
\* differs from last_status, storing the computed text; so, between two
\* transitions, the redraws made are the one of startup plus one for each
\* completed transition that changed (enabled, gamma to one decimal, colour
\* mode): a transition that left them as they were made no redraw.
C11_RedrawOnlyOnChange ==
    /\ []((LoopIdle /\ Len(hist) = FiredTotal) =>
             redraws = 1 + Cardinality(VisibleChanges))
    /\ [][ /\ redraws' \in {redraws, redraws + 1}
           /\ (redraws' = redraws + 1) <=> (last_status' # last_status)
           /\ (redraws' = redraws + 1) =>
                 last_status' = get_status_text(enabled, current_gamma, color_mode)
           /\ (Rendering /\ exc' = exc) =>
                 ((redraws' = redraws + 1) <=>
                    (get_status_text(enabled, current_gamma, color_mode) # last_status))
         ]_vars

\* C11 witness: change_gamma(+0.1) completed twice at gamma 4.4, three
\* renders of the same text in a row, and the startup redraw is the only one.
C11_Witness ==
    /\ LoopIdle
    /\ PairOf("change_gamma")
    /\ \A n \in 1..2 : hist[n].delta = GammaStep /\ hist[n].pre.gamma = GammaMax
    /\ redraws = 1
    /\ last_status = get_status_text(FALSE, GammaMax, color_mode)

\* The curve of the given gamma in all three channels.
AllChannels(g) == [R |-> CurveSamples(g), G |-> CurveSamples(g), B |-> CurveSamples(g)]

\* The curve of the given gamma in the blue channel, the identity in red
\* and green.
BlueChannel(g) == [R |-> Linear, G |-> Linear, B |-> CurveSamples(g)]

SavedAs(g, m) == file.exists /\ file.gamma = g /\ file.color_mode = m

\* C12: in the scripted session, between two transitions: after the
\* startup reset the state is disabled, 2.0, all, with the neutral ramp
\* handed over; after the toggle it is enabled with the 2.0 curve in all
\* channels and no file written; after +0.1 the gamma is 2.1, the 2.1
\* curve was handed over and the file holds 2.1; after the colour cycle the
\* mode is blue, the ramp is identity in R and G and the 2.1 curve in B,
\* and the file holds blue; after the second toggle it is disabled with the
\* neutral ramp and the file as before; and the process ends disabled with
\* the neutral ramp, gamma 2.1 and blue in memory and in the file.
C12_Scenario ==
    /\ (LoopIdle /\ FiredTotal = 0) =>
          /\ ~enabled /\ current_gamma = 200 /\ color_mode = "all"
          /\ lastRamp = NeutralRamp /\ file = NoFile
    /\ (LoopIdle /\ FiredTotal = 1) =>
          /\ enabled /\ current_gamma = 200 /\ color_mode = "all"
          /\ lastRamp = AllChannels(200) /\ file = NoFile
    /\ (LoopIdle /\ FiredTotal = 2) =>
          /\ enabled /\ current_gamma = 210 /\ color_mode = "all"
          /\ lastRamp = AllChannels(210) /\ SavedAs(210, "all")
    /\ (LoopIdle /\ FiredTotal = 3) =>
          /\ enabled /\ current_gamma = 210 /\ color_mode = "blue"
          /\ lastRamp = BlueChannel(210) /\ SavedAs(210, "blue")
    /\ (LoopIdle /\ FiredTotal = 4) =>
          /\ ~enabled /\ current_gamma = 210 /\ color_mode = "blue"
          /\ lastRamp = NeutralRamp /\ SavedAs(210, "blue")
    /\ pc = "done" =>
          /\ ~enabled /\ current_gamma = 210 /\ color_mode = "blue"
          /\ lastRamp = NeutralRamp /\ SavedAs(210, "blue")
          /\ resets = 2
    /\ "enabled" \notin file.keys

\* C12 witness: the scripted session ran to its end: four transitions, the
\* interrupt, and the shutdown reset has returned.
C12_Witness ==
    /\ pc = "done" /\ exc = "KeyboardInterrupt"
    /\ ~enabled /\ lastRamp = NeutralRamp
    /\ SavedAs(210, "blue")
    /\ redraws = 5

\* The ramp was built and handed to the applicator.
Built == opc = "applying"

\* C13: the ramp built in mode blue has i*257 in R and G whatever the
\* gamma, and the curve of the gamma only in B; the ramp built in mode all
\* has the curve in all three channels.
C13_BlueOnlyChannels ==
    /\ \A g \in GammaDomain :
         /\ _build_gamma_ramp(g, "blue").R = _build_gamma_ramp(NeutralGamma, "blue").R
         /\ _build_gamma_ramp(g, "blue").G = _build_gamma_ramp(NeutralGamma, "blue").G
    /\ (Built /\ color_mode = "blue") =>
          /\ \A n \in 1..Len(SampleIdx) :
               ramp.R[n] = SampleIdx[n] * LinearScale /\ ramp.G[n] = ramp.R[n]
          /\ ramp.B = CurveSamples(ApplyTarget(enabled, current_gamma))
    /\ (Built /\ color_mode = "all") =>
          /\ ramp.R = ramp.G /\ ramp.G = ramp.B
          /\ ramp.B = CurveSamples(ApplyTarget(enabled, current_gamma))

\* C13 witness: the ramp of gamma 4.4 was built in mode blue: R and G are
\* the identity and B is not.
C13_Witness ==
    /\ Built /\ color_mode = "blue" /\ enabled /\ current_gamma = GammaMax
    /\ ramp.R = Linear /\ ramp.G = Linear
    /\ ramp.B # Linear

\* C14: the curve of gamma 1.0 is i*257 at every index 0..255, 0 at index
\* 0 and 65535 at index 255; the ramp built for gamma 1.0 is the same in
\* mode all and in mode blue; and the ramp built while disabled is that
\* ramp whatever the colour mode and the gamma.
C14_NeutralIsIdentity ==
    /\ Len(NeutralCurve) = 256
    /\ \A n \in 0..255 : NeutralCurve[n + 1] = n * 257
    /\ NeutralCurve[1] = 0 /\ NeutralCurve[256] = 65535
    /\ \A n \in 1..Len(SampleIdx) :
         CurveSamples(NeutralGamma)[n] = NeutralCurve[SampleIdx[n] + 1]
    /\ _build_gamma_ramp(NeutralGamma, "all") = _build_gamma_ramp(NeutralGamma, "blue")
    /\ (Built /\ ~enabled) =>
          /\ ramp = _build_gamma_ramp(NeutralGamma, "all")
          /\ ramp.R = CurveSamples(NeutralGamma)
          /\ ramp.R = ramp.G /\ ramp.G = ramp.B

\* C14 witness: the ramp was built while disabled in mode blue with gamma
\* 4.4, and all three channels are the identity.
C14_Witness ==
    /\ Built /\ ~enabled /\ color_mode = "blue" /\ current_gamma = GammaMax
    /\ ramp.R = CurveSamples(NeutralGamma)
    /\ ramp.B = ramp.R
    /\ ramp.B[Len(SampleIdx)] = 65535

\* The shutdown reset is about to start after Ctrl-C.
StopObserved ==
    pc = "final_reset" /\ opc = "mutate" /\ exc = "KeyboardInterrupt"

\* C15 as stated: when the shutdown reset starts after the stop signal,
\* no transition was cut short: the gamma and the colour mode in memory
\* are the ones last put into the config record, and while enabled the
\* ramp last handed over is the one built from them.
C15_StopFindsTransitionsComplete ==
    StopObserved =>
        /\ current_gamma = config.gamma
        /\ color_mode = config.color_mode
        /\ enabled => lastRamp = _build_gamma_ramp(current_gamma, color_mode)

\* The key a completed transition was dispatched for.
KeyOf(h) ==
    CASE h.op = "toggle" -> "F2"
      [] h.op = "change_gamma" /\ h.delta = GammaStep -> "F3"
      [] h.op = "change_gamma" /\ h.delta # GammaStep -> "F4"
      [] h.op = "cycle_color_mode" -> "F5"

KeyIndex(k) == CHOOSE n \in 1..Len(Keys) : Keys[n] = k

\* The key has been sampled in the current tick.
SampledThisTick(k) == pc = "sleep" \/ (pc = "poll" /\ KeyIndex(k) < keyIdx)

\* The key was sampled down in this tick and not in the tick before.
EdgeThisTick(k) == SampledThisTick(k) /\ downRun[k] = 1

\* C16: every step that dispatches a command dispatches the command of the
\* key being sampled, on that key's own sample and latch alone (down, and
\* the latch up), and dispatches exactly one command: toggle for F2,
\* change_gamma(+0.1) for F3, change_gamma(-0.1) for F4, cycle_color_mode
\* for F5; no step changes the latch of a key other than the one being
\* sampled; each key's dispatches equal its own rising edges; a key with a
\* rising edge in the current tick has had its command dispatched, keys
\* with rising edges in the same tick in the order F2, F3, F4, F5.
C16_IndependentLatches ==
    /\ [](\A k \in KeySet :
            /\ fired[k] = edges[k]
            /\ (EdgeThisTick(k) /\ pc \in {"poll", "sleep"}) => fired[k] >= 1
            /\ (SampledThisTick(k) /\ op = "none") => key_states[k] = prevSample[k])
    /\ []((LoopIdle /\ Len(hist) = 2 /\ KeyOf(hist[1]) # KeyOf(hist[2])
              /\ EdgeThisTick(KeyOf(hist[1])) /\ EdgeThisTick(KeyOf(hist[2])))
            => KeyIndex(KeyOf(hist[1])) < KeyIndex(KeyOf(hist[2])))
    /\ [][ /\ \A k \in KeySet :
                fired'[k] > fired[k] =>
                   /\ k = Keys[keyIdx] /\ pc = "poll"
                   /\ fired'[k] = fired[k] + 1
                   /\ prevSample'[k] /\ ~key_states[k]
                   /\ op' = OpOf(k) /\ delta' = DeltaOf(k)
                   /\ \A j \in KeySet \ {k} : fired'[j] = fired[j]
           /\ (pc = "poll" /\ pc' \in {"poll", "sleep"}) =>
                \A j \in KeySet \ {Keys[keyIdx]} : key_states'[j] = key_states[j]
         ]_vars

\* C16 witness: F2 and F3 both went down in the same tick, F3 while the
\* toggle of F2 had just run, and both commands were dispatched in that
\* tick, the toggle first.
C16_Witness ==
    /\ pc = "sleep"
    /\ EdgeThisTick("F2") /\ EdgeThisTick("F3")
    /\ fired["F2"] = 1 /\ fired["F3"] = 1
    /\ Len(hist) = 2 /\ hist[1].op = "toggle" /\ hist[2].op = "change_gamma"
    /\ key_states["F2"] /\ key_states["F3"] /\ ~key_states["F4"]

\* The OS calls of the call in progress made on the context h.
EventsOn(h) == {n \in 1..Len(oscalls) : oscalls[n].dc = h}

CallsOn(name, h, res) ==
    {n \in 1..Len(oscalls) :
        oscalls[n].call = name /\ oscalls[n].dc = h /\ oscalls[n].res = res}

DeviceIdx == 0..(Len(devices) - 1)

\* The applicator is past the device d, or has returned.
PastDevice(d) == Returned \/ (opc = "applying" /\ apc # "idle" /\ d < i)

\* The position in the display list an OS call of the log belongs to; the
\* calls on the screen context and the return come after every device.
DeviceOf(ev) ==
    IF ev.dc # NULL /\ ev.dc[1] = "DISPLAY" THEN ev.dc[2] ELSE Len(devices)

\* The log of the apply call in progress, device by device: a device the
\* applicator is past (all of them once it has returned) has, if active,
\* exactly one CreateDCW and, if that gave a context, exactly one
\* SetDeviceGammaRamp and one DeleteDC on it, in this order, whatever the
\* two calls returned, and nothing else; an inactive device has no call at
\* all; a device not yet reached has none; the calls on a device come
\* before those on the next; and the loop is left exactly when the index
\* has reached the end of the list.
EachActiveDeviceOnce ==
    /\ (opc = "applying" \/ oscalls # <<>>) =>
         /\ \A d \in DeviceIdx : \A on \in {EventsOn(DisplayDC(d))} :
              LET created == {n \in on : oscalls[n].call = "CreateDCW"}
                  acquired == {n \in created : oscalls[n].res = "ok"}
                  applied == {n \in on : oscalls[n].call = "SetDeviceGammaRamp"}
                  deleted == {n \in on : oscalls[n].call = "DeleteDC"}
              IN  /\ (PastDevice(d) /\ devices[d + 1]) =>
                        /\ Cardinality(created) = 1
                        /\ Cardinality(applied) = Cardinality(acquired)
                        /\ Cardinality(deleted) = Cardinality(acquired)
                        /\ on = created \cup applied \cup deleted
                        /\ \A a \in created : \A b \in applied : \A c \in deleted :
                             a < b /\ b < c
                  /\ (PastDevice(d) /\ ~devices[d + 1]) => on = {}
                  /\ (opc = "applying" /\ apc # "idle" /\ d > i) => on = {}
         /\ \A n \in 1..(Len(oscalls) - 1) :
              DeviceOf(oscalls[n]) <= DeviceOf(oscalls[n + 1])
    /\ opc = "applying" => i <= Len(devices)
    /\ apc \in {"check", "fb_set", "fb_release"} => i = Len(devices)
    /\ apc \in {"create", "set", "delete"} => i < Len(devices) /\ devices[i + 1]

\* C17: at every moment of every run, each active display device has been
\* attempted exactly once by the apply call in progress, with its context
\* created, given the ramp and deleted in this order, and a failure on one
\* device (no context, or a refused ramp) does not stop the later ones.
C17_EachActiveDeviceOnce == []EachActiveDeviceOnce

\* C17 witness: two active devices; the context of the first was refused,
\* the second got the ramp and the driver refused it; both were attempted
\* and the call returned.
C17_Witness ==
    /\ Returned
    /\ Len(devices) = 2 /\ devices[1] /\ devices[2]
    /\ CallsOn("CreateDCW", DisplayDC(0), "null") # {}
    /\ CallsOn("CreateDCW", DisplayDC(1), "ok") # {}
    /\ CallsOn("SetDeviceGammaRamp", DisplayDC(1), "false") # {}
    /\ LoggedOn("DeleteDC", DisplayDC(1)) # {}

\* The process has ended.
Exited == pc \in {"done", "crashed"}

StatusCurrent == last_status = get_status_text(enabled, current_gamma, color_mode)

\* C18 as stated: once the first render has been made, whenever no
\* transition is in progress, also after the shutdown reset, last_status
\* is the text of the current enabled, gamma and colour mode.
C18_StatusReflectsState ==
    ((LoopIdle \/ Exited) /\ last_status # NoStatus) => StatusCurrent

\* C18 amended: between two transitions of the polling loop last_status
\* is the text of the current enabled, gamma and colour mode, whatever the
\* OS answered to the ramp; the shutdown reset renders nothing, so after
\* it last_status is what it was when the loop ended.
C18_StatusReflectsStateInLoop ==
    /\ [](LoopIdle => StatusCurrent /\ last_status # NoStatus)
    /\ [][(pc = "final_reset" \/ Exited) =>
             (last_status' = last_status /\ redraws' = redraws)]_vars

\* C18 witness: the process has ended after the shutdown reset, enabled is
\* false, and the last status rendered says ON.
C18_Witness ==
    /\ pc = "done"
    /\ ~enabled /\ lastRamp = NeutralRamp
    /\ last_status = get_status_text(TRUE, current_gamma, color_mode)

\* After the startup reset, with no transition in progress.
Settled == pc = "startup_render" \/ LoopIdle \/ Exited

\* C19: after the startup reset, whenever no transition is in progress,
\* the ramp last handed to the applicator is the one built from the gamma
\* and the colour mode if enabled and the neutral ramp if not; a
\* change_gamma or cycle_color_mode called while disabled goes on to the
\* save without an apply and leaves the neutral ramp, called while enabled
\* it goes to the apply and the ramp of the new values is handed over.
C19_RampMatchesState ==
    /\ [](Settled => lastRamp = RampInForce(Snap))
    /\ [](\A h \in Entries :
            h.op \in {"change_gamma", "cycle_color_mode"} =>
               /\ h.post.enabled = h.pre.enabled
               /\ ~h.pre.enabled =>
                     h.pre.ramp = NeutralRamp /\ h.post.ramp = NeutralRamp
               /\ h.pre.enabled =>
                     h.post.ramp = _build_gamma_ramp(h.post.gamma, h.post.mode))
    /\ [][(op \in {"change_gamma", "cycle_color_mode"} /\ opc = "mutate" /\ exc' = exc) =>
             /\ ~enabled => (opc' = "save" /\ lastRamp' = lastRamp /\ oscalls' = oscalls)
             /\ enabled => opc' = "apply"]_vars
    /\ [][(opc = "apply" /\ exc' = exc) =>
             lastRamp' = RampInForce([enabled |-> enabled, gamma |-> current_gamma,
                                      mode |-> color_mode])]_vars

\* C19 witness: toggle on, then cycle_color_mode while enabled: the ramp
\* handed over last is the blue-only curve of the gamma, not the ramp of
\* before the cycle.
C19_Witness ==
    /\ LoopIdle /\ enabled
    /\ Len(hist) = 2 /\ hist[1].op = "toggle" /\ hist[2].op = "cycle_color_mode"
    /\ color_mode = "blue"
    /\ lastRamp = BlueChannel(current_gamma)
    /\ lastRamp # hist[2].pre.ramp
    /\ lastRamp # NeutralRamp

\* C20 as stated: in every state the gamma lies in [0.1, 4.4] and the
\* colour mode is all or blue, enabled is false when the process starts,
\* and no transition aborts on the mode lookup or on the division by gamma.
C20_StateAlwaysInDomain ==
    /\ InDomain(current_gamma)
    /\ color_mode \in ModeSet
    /\ (pc = "startup_reset" /\ opc = "mutate") => ~enabled
    /\ exc \notin {"ValueError", "ZeroDivisionError"}

=============================================================================
